---- MODULE Spec2Model ----
(***************************************************************************)
(* A model of gen.py: the orchestrator run(), the login state machine of   *)
(* LoginDataGenerator, the five generators, the image hosting client       *)
(* (ImageService.upload / cleanup) and the cursor-paginated history fetch  *)
(* of BilibiliHistory.                                                     *)
(*                                                                         *)
(* Remote parties (the sites, the image host, the history endpoint) are    *)
(* the environment: every answer they can give is a nondeterministic       *)
(* choice.  A Python exception is a value: an action that raises moves     *)
(* control to the handler that the code would reach.                       *)
(***************************************************************************)
EXTENDS Integers, Sequences, FiniteSets, TLC

\* ---------------------------------------------------------------- bounds
\* Artifacts the image host may hold from earlier runs when a run starts.
MaxPrior == 2
\* Calls of upload() made on the image client directly.
MaxUploads == 2
\* Items of the remote watch log.
MaxLogLen == 4
\* Runs of the watch-history source on one day.
MaxRuns == 2

\* ------------------------------------------------------------- constants
None == "None"
\* main(): the exit status of the process: 0 when run() returned True, 1 after
\* exit(1) and after an exception that left asyncio.run.
ExitSuccess == "exit 0"
ExitFailure == "exit 1"

LC == "leetcode_summary"
GH == "github_calendar"
GT == "geek_time_calendar"
WR == "weread_history"
BL == "bilibili_history"

\* A list of generators with the first two exchanged.
generators_swapped == <<GH, LC, GT, WR, BL>>

\* run(): the list `generators`, in its configured order.
generators == <<LC, GH, GT, WR, BL>>
Names == {generators[j] : j \in 1..Len(generators)}

\* Subclasses of LoginDataGenerator: their generate() starts with login().
LoginGenerators == {LC, GT, WR, BL}
\* Generators that drive the shared page and upload a screenshot.
PageGenerators == {LC, GH, GT}

DEBUG_FOLDER == "./debug"
OUTPUT_FOLDER == "./output"
DATA_FOLDER == "./data"

\* pendulum: a day in seconds ((now - created_at).days is whole days).
SecondsPerDay == 86400
\* TZ = Asia/Shanghai, as an offset of the epoch in seconds.
TzOffset == 28800
\* cleanup(): the retention threshold, in days.
RetentionDays == 7

\* The instant of the run (a local afternoon, epoch seconds).
Now0 == 20 * SecondsPerDay + 5 * 3600

\* pendulum.today() / pendulum.yesterday(): the local midnights, as timestamps.
StartOfDay(t) == ((t + TzOffset) \div SecondsPerDay) * SecondsPerDay - TzOffset
today_starts(t) == StartOfDay(t)
yesterday_starts(t) == StartOfDay(t) - SecondsPerDay

\* get_today() and pendulum.yesterday().to_date_string(): a date as its day number.
DateOf(t) == (t + TzOffset) \div SecondsPerDay
get_today(t) == DateOf(t)
yesterday(t) == DateOf(t) - 1

\* ------------------------------------------------------------- exceptions
NoErr == [type |-> "none", name |-> None]
\* class LoginFailed: LoginFailed(name) carries its first argument as the name.
LoginFailed(n) == [type |-> "LoginFailed", name |-> n]
\* Any other exception a step can raise (timeouts, HTTP errors, KeyError, ...):
\* run() catches them all alike, so the model keeps no more than the type.
Exc(what) == [type |-> "Exception", name |-> None]
\* The two exceptions of the watch-history source whose place matters later:
\* json.load's on an unreadable cache file and the history request's.
HistoryExc(what) == [type |-> "Exception", name |-> what]

\* ------------------------------------------------------------ result maps
\* The two keys of a generator's result: self.name and f"{self.name}_update_date".
UrlKey(n) == <<n, "">>
DateKey(n) == <<n, "_update_date">>
KeysOf(n) == {UrlKey(n), DateKey(n)}

\* A result whose date entry is filed under one key shared by all generators.
ResultMap_shared_date_key(n, url, t) ==
  [k \in {UrlKey(n), <<"", "_update_date">>} |-> IF k = UrlKey(n) THEN url ELSE get_today(t)]

\* generate()'s return value: {name: image_url, name_update_date: get_today()}.
ResultMap(n, url, t) ==
  [k \in KeysOf(n) |-> IF k = UrlKey(n) THEN url ELSE get_today(t)]

\* An aggregate that is replaced by the newest result instead of merged with it.
DictAssign(d, data) == data

\* dict.update: the keys of `data` overwrite those of `d`.
DictUpdate(d, data) ==
  [k \in (DOMAIN d) \cup (DOMAIN data) |->
     IF k \in DOMAIN data THEN data[k] ELSE d[k]]

EmptyDict == [k \in {} |-> None]

\* ------------------------------------------------------------ image host
\* What the image host keeps for an artifact: the upload-history item.
Artifact(id, content, created) == [id |-> id, content |-> content, created_at |-> created]
\* The public URL of an artifact.
UrlOf(id) == <<"url", id>>
\* A field of an answer that the answer does not carry.
NoUrl == <<"none", 0>>

\* The screenshot bytes of generator n: unchanged since the last run, or changed.
ImageVersions == {"same", "new"}
Content(n, v) == <<n, v>>
OtherContent == <<"other", "same">>

\* Ages (seconds) of artifacts left on the host by earlier runs: around the threshold.
PriorAges ==
  <<6 * SecondsPerDay, RetentionDays * SecondsPerDay - 1,
    RetentionDays * SecondsPerDay, 8 * SecondsPerDay>>
PriorContents == <<Content(LC, "same"), OtherContent>>
PriorArtifacts ==
  {Artifact((c - 1) * Len(PriorAges) + a, PriorContents[c], Now0 - PriorAges[a]) :
     c \in 1..Len(PriorContents), a \in 1..Len(PriorAges)}
FirstNewId == Len(PriorContents) * Len(PriorAges) + 1
\* The host holds at most one artifact per content (it deduplicates by content hash).
PriorHosts ==
  {h \in SUBSET PriorArtifacts :
     /\ Cardinality(h) <= MaxPrior
     /\ \A x, y \in h : x.content = y.content => x = y}

\* An answer of POST /upload.
UploadResp(status, success, code, images, url) ==
  [status |-> status, success |-> success, code |-> code, images |-> images, url |-> url]

\* The host's possible answers to an upload of content c at time t, each with the
\* host's state after it: an HTTP error; the duplicate-content answer naming the
\* existing URL; a refusal with another code; success, which stores the artifact.
HostUpload(h, c, t, nid) ==
  {[resp |-> UploadResp(500, FALSE, "error", NoUrl, NoUrl), host |-> h]}
  \cup
  (IF \E a \in h : a.content = c
     THEN {[resp |-> UploadResp(200, FALSE, "image_repeated", UrlOf(a.id), NoUrl),
            host |-> h] : a \in {x \in h : x.content = c}}
     ELSE {[resp |-> UploadResp(200, TRUE, "success", NoUrl, UrlOf(nid)),
            host |-> h \cup {Artifact(nid, c, t)}],
           [resp |-> UploadResp(200, FALSE, "flood", NoUrl, NoUrl), host |-> h]})

Returned(v) == [raised |-> FALSE, value |-> v, err |-> NoErr]
Raised(e) == [raised |-> TRUE, value |-> NoUrl, err |-> e]

\* An upload() that treats the duplicate-content answer as any other refusal.
upload_result_no_duplicate_branch(resp) ==
  IF resp.status >= 400 THEN Raised(Exc("HTTPStatusError"))
  ELSE IF resp.success = FALSE THEN Raised(Exc("UploadFailed"))
  ELSE Returned(resp.url)

\* ImageService.upload, from the response on: raise_for_status, then the
\* duplicate branch returns resp_data["images"], any other refusal raises, and
\* success returns resp_data["data"]["url"].
upload_result(resp) ==
  IF resp.status >= 400 THEN Raised(Exc("HTTPStatusError"))
  ELSE IF resp.success = FALSE
    THEN IF resp.code = "image_repeated"
           THEN Returned(resp.images)
           ELSE Raised(Exc("UploadFailed"))
    ELSE Returned(resp.url)

\* (now - created_at).days: the whole days of the difference. No artifact is
\* created after `now` here, so truncation and floor agree.
days(now, created) == (now - created) \div SecondsPerDay

\* A cleanup() whose threshold is one day short.
should_delete_one_day_early(now, item) == days(now, item.created_at) >= RetentionDays - 1

\* cleanup(): the test that guards the delete call of an item.
should_delete(now, item) == days(now, item.created_at) >= RetentionDays

\* ----------------------------------------------------------------- state
VARIABLES
  pc,         \* run(): where the orchestrator is
  i,          \* run(): how many iterations of the generator loop have begun
  gpc,        \* the running generate(): its next step
  full_data,  \* run(): the aggregate
  err,        \* the exception being handled by run()'s except clause
  exitCode,   \* main(): the process exit status, None while running
  outcome,    \* per generator: pending, running, raised, handled, returned
  errOf,      \* per generator: the exception its generate() raised
  genCalls,   \* per generator: how often generate() was invoked
  shots,      \* the diagnostic screenshots written, by path
  captures,   \* generators that started their capture step
  uploads,    \* generators that called image_service.upload
  login,      \* the running login(): cookie jar, injections, checks, credential calls
  file,       \* the content of the running generator's screenshot file
  post,       \* the calls run() made after the loop, in order
  clock,      \* the current time (epoch seconds)
  host,       \* the image host: its artifacts
  nextId,     \* the image host: the id of the next artifact
  sweep,      \* the running cleanup(): history, position, now, delete calls
  given,      \* per content: the URL the last successful upload() of it returned
  lastUp,     \* the last call of upload(): content, answer, result, calls so far
  caller,     \* who awaits the image client: run(), or a direct caller
  wr,         \* WeReadHistory.get_history: retries and the requests it made
  cache,      \* the file data/bilibili_histories.json
  bl,         \* BilibiliHistory.generate: loaded history, cursor, count, requests
  log,        \* the remote watch log, newest first (timestamps)
  runs        \* the save_histories calls so far: log, count, file before and after

runVars == <<pc, i, gpc, full_data, err, exitCode, outcome, errOf, genCalls, shots,
             captures, uploads, post>>
imgVars == <<clock, host, nextId, sweep, given, lastUp, caller>>
srcVars == <<wr, cache, bl, log, runs>>
vars == <<pc, i, gpc, full_data, err, exitCode, outcome, errOf, genCalls, shots,
          captures, uploads, login, file, post, clock, host, nextId, sweep,
          given, lastUp, caller, wr, cache, bl, log, runs>>

\* The locals of a generate() call: they end with the call.
\* The generator of the current loop iteration.
cur == generators[i]

NoLogin == [jar |-> FALSE, injected |-> 0, checks |-> <<>>, cred |-> 0]
NoSweep == [history |-> <<>>, k |-> 0, now |-> 0, calls |-> {}, failed |-> {},
            order |-> <<>>, raised |-> FALSE]
NoFile == <<"none", "none">>
NoUpload == [content |-> NoFile, code |-> "none", raised |-> FALSE, value |-> NoUrl,
             before |-> NoUrl, copies |-> 0, n |-> 0]
\* Every content a file handed to upload() may have.
AllContents == {Content(n, v) : n \in PageGenerators, v \in ImageVersions} \cup {OtherContent}
\* The URLs earlier runs were given for the artifacts the host still holds.
GivenFor(h) ==
  [c \in AllContents |->
     IF \E a \in h : a.content = c
       THEN UrlOf((CHOOSE a \in h : a.content = c).id)
       ELSE NoUrl]
NoWr == [retries |-> 0, details |-> 0, refreshes |-> 0, codes |-> <<>>]
NoCursor == [max |-> 0, view_at |-> 0]
EmptyHist == [d \in {} |-> 0]
NoBl == [hist |-> EmptyHist, cnt |-> 0, cursor |-> NoCursor, exhausted |-> FALSE,
         reqs |-> 0, sent |-> NoCursor, got |-> NoCursor, served |-> 0, late |-> FALSE]

\* The cache file before the run: unreadable, or a map from dates to counts
\* written by earlier runs (with or without a provisional entry for yesterday).
CacheFile(ok, data) == [ok |-> ok, data |-> data]
OlderEntry == [d \in {yesterday(Now0) - 1} |-> 2]
ProvisionalEntry == [d \in {yesterday(Now0) - 1, yesterday(Now0)} |->
                      IF d = yesterday(Now0) THEN MaxLogLen + 2 ELSE 2]
CacheInits ==
  {CacheFile(FALSE, EmptyHist), CacheFile(TRUE, OlderEntry),
   CacheFile(TRUE, ProvisionalEntry)}

\* The artifacts of a set, as the list GET /upload_history returns (by id).
RECURSIVE HistoryOf(_)
HistoryOf(h) ==
  IF h = {} THEN <<>>
  ELSE LET a == CHOOSE x \in h : \A y \in h : x.id <= y.id
       IN <<a>> \o HistoryOf(h \ {a})

\* Timestamps a log item may carry: around the two day boundaries.
LogTimes(t) ==
  {yesterday_starts(t) - 1, yesterday_starts(t), today_starts(t) - 1,
   today_starts(t), today_starts(t) + 1}

\* The remote logs: ordered from the most recent to the oldest.
Logs(t) ==
  UNION {{lg \in [1..n -> LogTimes(t)] : \A j \in 1..(n - 1) : lg[j] >= lg[j + 1]} :
           n \in 0..MaxLogLen}

\* The logs a run of the orchestrator may meet: an empty one, one without an
\* item older than yesterday, and two that cross both day boundaries.
RunLogs ==
  {<<>>,
   <<today_starts(Now0) + 1, yesterday_starts(Now0)>>,
   <<today_starts(Now0), today_starts(Now0) - 1, yesterday_starts(Now0) - 1>>,
   <<yesterday_starts(Now0), yesterday_starts(Now0) - 1, yesterday_starts(Now0) - 1>>}

\* The image host as a run of the orchestrator may find it: empty, or holding the
\* previous upload of the first generator's screenshot, a week old.
RunHosts ==
  {{}, {Artifact(1, Content(LC, "same"), Now0 - RetentionDays * SecondsPerDay)}}

\* What every specification starts from: no result, no exception, no call made.
InitCommon ==
  /\ full_data = EmptyDict
  /\ err = NoErr
  /\ exitCode = None
  /\ uploads = {}
  /\ file = NoFile
  /\ post = <<>>
  /\ clock = Now0
  /\ nextId = FirstNewId
  /\ sweep = NoSweep
  /\ given = GivenFor(host)
  /\ lastUp = NoUpload
  /\ wr = NoWr
  /\ bl = NoBl
  /\ runs = <<>>

\* run() has built the generators and is about to enter the loop.
Init ==
  /\ pc = "loop"
  /\ i = 0
  /\ gpc = "idle"
  /\ outcome = [n \in Names |-> "pending"]
  /\ errOf = [n \in Names |-> NoErr]
  /\ genCalls = [n \in Names |-> 0]
  /\ shots = {}
  /\ captures = {}
  /\ login = NoLogin
  /\ host \in RunHosts
  /\ caller = "run"
  /\ cache \in CacheInits
  /\ log \in RunLogs
  /\ InitCommon

\* ------------------------------------------------------------ run(): loop
\* A generate() that starts with the capture in every generator that drives the page.
FirstStep_capture_first(n) == IF n \in PageGenerators THEN "capture" ELSE "login_by_cookies"

\* The first step of generate(): login() for a LoginDataGenerator, else the capture.
FirstStep(n) == IF n \in LoginGenerators THEN "login_by_cookies" ELSE "capture"

\* for generator in generators: ... data = await generator.generate()
loop_next ==
  /\ pc = "loop"
  /\ i < Len(generators)
  /\ i' = i + 1
  /\ pc' = "generate"
  /\ gpc' = FirstStep(generators[i + 1])
  /\ outcome' = [outcome EXCEPT ![generators[i + 1]] = "running"]
  /\ genCalls' = [genCalls EXCEPT ![generators[i + 1]] = @ + 1]
  /\ login' = NoLogin
  /\ file' = NoFile
  /\ wr' = NoWr
  /\ bl' = NoBl
  /\ UNCHANGED <<full_data, err, exitCode, errOf, shots, captures, uploads, post>>
  /\ UNCHANGED <<cache, log, runs>>
  /\ UNCHANGED imgVars

\* The loop is exhausted: control leaves the `async with` block.
loop_exit ==
  /\ pc = "loop"
  /\ i = Len(generators)
  /\ pc' = "check_data"
  /\ login' = NoLogin
  /\ file' = NoFile
  /\ wr' = NoWr
  /\ bl' = NoBl
  /\ UNCHANGED <<i, gpc, full_data, err, exitCode, outcome, errOf, genCalls, shots,
                 captures, uploads, post>>
  /\ UNCHANGED <<cache, log, runs>>
  /\ UNCHANGED imgVars

\* generate() raises e: control passes to run()'s `except Exception as e`.
Raise(e) ==
  /\ pc' = "except"
  /\ gpc' = "idle"
  /\ err' = e
  /\ outcome' = [outcome EXCEPT ![cur] = "raised"]
  /\ errOf' = [errOf EXCEPT ![cur] = e]
  /\ UNCHANGED <<i, full_data, exitCode, genCalls, shots, post>>

\* generate() returns data: full_data.update(data), then the next iteration.
Return(data) ==
  /\ pc' = "loop"
  /\ gpc' = "idle"
  /\ full_data' = DictUpdate(full_data, data)
  /\ outcome' = [outcome EXCEPT ![cur] = "returned"]
  /\ UNCHANGED <<i, err, exitCode, errOf, genCalls, shots, post>>

\* A step inside generate() that moves to the step `next`.
Goto(next) ==
  /\ gpc' = next
  /\ UNCHANGED <<pc, i, full_data, err, exitCode, outcome, errOf, genCalls, shots, post>>

\* An exception that leaves run(): asyncio.run raises, the process exits with 1.
Crash ==
  /\ pc' = "crashed"
  /\ exitCode' = ExitFailure
  /\ UNCHANGED <<i, gpc, full_data, err, outcome, errOf, genCalls, shots,
                 captures, uploads, post>>

\* The path of the diagnostic screenshot of generator n.
DebugPath(n) == <<DEBUG_FOLDER, n>>

\* A handler that goes on to the next generator when its screenshot raised.
after_debug_screenshot_guarded(written) == "next"

\* except Exception as e: ... await page.screenshot(...): the clause has no
\* handler of its own, so control goes to the next iteration when the
\* screenshot was written and out of run() when the call raised.
after_debug_screenshot(written) == IF written THEN "next" ELSE "propagate"

\* except Exception as e: ... await page.screenshot(path=DEBUG_FOLDER/<name>.png).
\* The screenshot is itself a page operation and may raise; nothing catches that.
except_screenshot ==
  /\ pc = "except"
  /\ \E written \in BOOLEAN :
       IF after_debug_screenshot(written) = "next"
         THEN /\ pc' = "loop"
              /\ shots' = IF written THEN shots \cup {DebugPath(cur)} ELSE shots
              /\ outcome' = [outcome EXCEPT ![cur] = "handled"]
              /\ err' = NoErr
              /\ UNCHANGED <<i, gpc, full_data, exitCode, errOf, genCalls, captures,
                             uploads, post>>
         ELSE Crash
  /\ UNCHANGED <<login, file>>
  /\ UNCHANGED imgVars
  /\ UNCHANGED srcVars

\* ------------------------------------------------- LoginDataGenerator.login
\* The step of generate() that follows login().
Body(n) ==
  IF n \in PageGenerators THEN "capture"
  ELSE IF n = WR THEN "get_history" ELSE "load_histories"

\* login_by_cookies: LeetcodeSummary and GeekTimeCalendar add the cookies to the
\* page's context only `if self.cookies`; the two HTTP-client generators call
\* client.cookies.update(self.cookies), which puts in what the jar holds.
\* The result counts the injections that put a cookie into the session.
cookies_injected(n, jar) == IF jar THEN 1 ELSE 0

\* await self.login_by_cookies()
login_by_cookies ==
  /\ pc = "generate"
  /\ gpc = "login_by_cookies"
  /\ \E jar \in BOOLEAN :
       login' = [login EXCEPT !.jar = jar, !.injected = @ + cookies_injected(cur, jar)]
  /\ Goto("check_login_1")
  /\ UNCHANGED <<captures, uploads, file>>
  /\ UNCHANGED imgVars
  /\ UNCHANGED srcVars

\* check_login's possible answers: WeReadHistory.check_login returns True; the
\* others read the site, which decides.
CheckAnswers(n) == IF n = WR THEN {TRUE} ELSE BOOLEAN

\* A login() that goes on to the credential attempt whatever the first check said.
after_cookie_check_always_credential(n, ok) == "login_by_credential"

\* login(): where control goes after the check that follows the cookie attempt.
after_cookie_check(n, ok) == IF ok THEN Body(n) ELSE "login_by_credential"

\* A login() that falls through instead of raising after the second failed check.
after_credential_check_no_raise(n, ok) == Returned(Body(n))

\* login(): after the check that follows the credential attempt: go on, or
\* raise LoginFailed(self.name).
after_credential_check(n, ok) ==
  IF ok THEN Returned(Body(n)) ELSE Raised(LoginFailed(n))

\* if await self.check_login(): ... return   (after login_by_cookies)
check_login_cookies ==
  /\ pc = "generate"
  /\ gpc = "check_login_1"
  /\ \/ \E ok \in CheckAnswers(cur) :
          /\ login' = [login EXCEPT !.checks = Append(@, ok)]
          /\ Goto(after_cookie_check(cur, ok))
     \/ /\ cur # WR
        /\ Raise(Exc("CheckLoginError"))
        /\ UNCHANGED login
  /\ UNCHANGED <<captures, uploads, file>>
  /\ UNCHANGED imgVars
  /\ UNCHANGED srcVars

\* await self.login_by_credential(): a form flow on the page for the two page
\* generators (it may time out), `return` for the two HTTP-client generators.
login_by_credential ==
  /\ pc = "generate"
  /\ gpc = "login_by_credential"
  /\ login' = [login EXCEPT !.cred = @ + 1]
  /\ \/ Goto("check_login_2")
     \/ /\ cur \in PageGenerators
        /\ Raise(Exc("CredentialFlowError"))
  /\ UNCHANGED <<captures, uploads, file>>
  /\ UNCHANGED imgVars
  /\ UNCHANGED srcVars

\* if await self.check_login(): ... return; raise LoginFailed(self.name)
check_login_credential ==
  /\ pc = "generate"
  /\ gpc = "check_login_2"
  /\ \/ \E ok \in CheckAnswers(cur) :
          /\ login' = [login EXCEPT !.checks = Append(@, ok)]
          /\ LET r == after_credential_check(cur, ok)
             IN IF r.raised THEN Raise(r.err) ELSE Goto(r.value)
     \/ /\ cur # WR
        /\ Raise(Exc("CheckLoginError"))
        /\ UNCHANGED login
  /\ UNCHANGED <<captures, uploads, file>>
  /\ UNCHANGED imgVars
  /\ UNCHANGED srcVars

\* ------------------------------------------------------- page generators
\* goto / wait / locate / screenshot(path=OUTPUT_FOLDER/<name>.png): the page
\* writes the file, or one of the page operations raises.
capture ==
  /\ pc = "generate"
  /\ gpc = "capture"
  /\ cur \in PageGenerators
  /\ captures' = captures \cup {cur}
  /\ \/ \E v \in ImageVersions :
          /\ file' = Content(cur, v)
          /\ Goto("upload")
     \/ /\ Raise(Exc("CaptureFailed"))
        /\ UNCHANGED file
  /\ UNCHANGED <<uploads, login>>
  /\ UNCHANGED imgVars
  /\ UNCHANGED srcVars

\* upload(path) on a file of content c, with the host's answer o: the host's new
\* state, and the record of the call (with the URL an earlier call returned for
\* this content, and the artifacts of this content on the host after the call).
DoUpload(c, o) ==
  /\ host' = o.host
  /\ nextId' = IF o.host = host THEN nextId ELSE nextId + 1
  /\ lastUp' = [content |-> c, code |-> o.resp.code,
                raised |-> upload_result(o.resp).raised,
                value |-> upload_result(o.resp).value,
                before |-> given[c],
                copies |-> Cardinality({a \in o.host : a.content = c}),
                n |-> lastUp.n + 1]
  /\ given' = IF upload_result(o.resp).raised
                THEN given
                ELSE [given EXCEPT ![c] = upload_result(o.resp).value]

\* image_url = await self.image_service.upload(save_to); return {...}
upload ==
  /\ pc = "generate"
  /\ gpc = "upload"
  /\ uploads' = uploads \cup {cur}
  /\ \E o \in HostUpload(host, file, clock, nextId) :
       /\ DoUpload(file, o)
       /\ LET r == upload_result(o.resp)
          IN IF r.raised
               THEN Raise(r.err)
               ELSE Return(ResultMap(cur, r.value, clock))
  /\ UNCHANGED <<captures, login, file, clock, sweep, caller>>
  /\ UNCHANGED srcVars

\* ------------------------------------------------------- WeReadHistory
\* The path generate() returns for a drawn poster: DATA_FOLDER/<name>.svg.
SvgPath(n) == <<DATA_FOLDER, n>>

\* A get_history that retries once more: `retries <= 2`.
get_history_step_one_more_retry(retries, errcode) ==
  IF errcode = -2012
    THEN IF retries <= 2 THEN "retry" ELSE "raise"
    ELSE "return"

\* get_history(retries), after the read-detail answer: on errcode -2012 retry
\* while retries < 2, else raise LoginFailed(<message>); otherwise return.
get_history_step(retries, errcode) ==
  IF errcode = -2012
    THEN IF retries < 2 THEN "retry" ELSE "raise"
    ELSE "return"

\* One call of get_history: the read-detail request, then by the answer the
\* base-URL refresh and the recursive call, the raise, or the return. Either
\* request may raise instead of answering.
get_history ==
  /\ pc = "generate"
  /\ gpc = "get_history"
  /\ \/ \E errcode \in {-2012, 0} :
          LET step == get_history_step(wr.retries, errcode)
              read == [wr EXCEPT !.details = @ + 1, !.codes = Append(@, errcode)]
          IN \/ /\ step = "retry"
                /\ wr' = [read EXCEPT !.refreshes = @ + 1, !.retries = @ + 1]
                /\ Goto("get_history")
             \/ /\ step = "retry"
                /\ wr' = [read EXCEPT !.refreshes = @ + 1]
                /\ Raise(Exc("HTTPError"))
             \/ /\ step = "raise"
                /\ wr' = read
                /\ Raise(LoginFailed("get weread history failed"))
             \/ /\ step = "return"
                /\ wr' = read
                /\ Goto("svg")
     \/ /\ wr' = [wr EXCEPT !.details = @ + 1]
        /\ Raise(Exc("HTTPError"))
  /\ UNCHANGED <<captures, uploads, login, file, cache, bl, log, runs>>
  /\ UNCHANGED imgVars

\* generate_svg(...); shutil.copy(...); return {name: DATA_FOLDER/<name>.svg, ...}
\* (both history generators); drawing or copying may raise.
svg ==
  /\ pc = "generate"
  /\ gpc = "svg"
  /\ \/ Return(ResultMap(cur, SvgPath(cur), clock))
     \/ Raise(Exc("DrawFailed"))
  /\ UNCHANGED <<captures, uploads, login, file>>
  /\ UNCHANGED imgVars
  /\ UNCHANGED srcVars

\* ------------------------------------------------------ BilibiliHistory
\* max = 0; view_at = today_starts: the cursor of the first request.
first_cursor(t) == [max |-> 0, view_at |-> today_starts(t)]

\* history = self.load_histories(): json.load raises on an unreadable file.
load_histories ==
  /\ pc = "generate"
  /\ gpc = "load_histories"
  /\ IF cache.ok
       THEN /\ bl' = [NoBl EXCEPT !.hist = cache.data,
                                  !.cursor = first_cursor(clock)]
            /\ Goto("fetch")
       ELSE /\ Raise(HistoryExc("CacheCorrupt"))
            /\ UNCHANGED bl
  /\ UNCHANGED <<captures, uploads, login, file, wr, cache, log, runs>>
  /\ UNCHANGED imgVars

\* The history endpoint: the answers to a request with cursor c on log lg. The
\* cursor's max is the server's position in the log; a page holds one or more
\* of the items that follow, and an empty list once the log is exhausted.
ServerPages(lg, c) ==
  IF c.max < Len(lg)
    THEN {[list |-> SubSeq(lg, c.max + 1, c.max + n),
           cursor |-> [max |-> c.max + n, view_at |-> lg[c.max + n]]] :
            n \in 1..(Len(lg) - c.max)}
    ELSE {[list |-> <<>>, cursor |-> c]}

\* A scan that takes an item stamped exactly at the start of today for yesterday's.
RECURSIVE scan_page_strict(_, _, _, _)
scan_page_strict(list, cnt, ys, ts) ==
  IF list = <<>> THEN [cnt |-> cnt, exhausted |-> FALSE]
  ELSE IF Head(list) > ts THEN scan_page_strict(Tail(list), cnt, ys, ts)
  ELSE IF ys <= Head(list) THEN scan_page_strict(Tail(list), cnt + 1, ys, ts)
  ELSE [cnt |-> cnt, exhausted |-> TRUE]

\* A scan that ends the loop when a page runs out with no older item seen.
RECURSIVE scan_page_stops_on_page_end(_, _, _, _)
scan_page_stops_on_page_end(list, cnt, ys, ts) ==
  IF list = <<>> THEN [cnt |-> cnt, exhausted |-> TRUE]
  ELSE IF Head(list) >= ts THEN scan_page_stops_on_page_end(Tail(list), cnt, ys, ts)
  ELSE IF ys <= Head(list) THEN scan_page_stops_on_page_end(Tail(list), cnt + 1, ys, ts)
  ELSE [cnt |-> cnt, exhausted |-> TRUE]

\* for view in data["data"]["list"]: skip the items of today, count those of
\* yesterday, and on the first older item set exhausted and break.
RECURSIVE scan_page(_, _, _, _)
scan_page(list, cnt, ys, ts) ==
  IF list = <<>> THEN [cnt |-> cnt, exhausted |-> FALSE]
  ELSE IF Head(list) >= ts THEN scan_page(Tail(list), cnt, ys, ts)
  ELSE IF ys <= Head(list) THEN scan_page(Tail(list), cnt + 1, ys, ts)
  ELSE [cnt |-> cnt, exhausted |-> TRUE]

\* A client that works out the next cursor itself: the offset moved on by the
\* length of the page, the time bound left as it was.
next_cursor_client_computed(c, page) ==
  [max |-> c.max + Len(page.list), view_at |-> c.view_at]

\* max = data["data"]["cursor"]["max"]; view_at = data["data"]["cursor"]["view_at"]
next_cursor(c, page) == [max |-> page.cursor.max, view_at |-> page.cursor.view_at]

\* The requests the model follows before it stops a loop that would not end.
MaxRequests == MaxLogLen + 2

\* One iteration of `while not exhausted`: the request with the current cursor,
\* the cursor taken from the answer, the scan of the page.
fetch_page ==
  /\ pc = "generate"
  /\ gpc = "fetch"
  /\ bl.reqs < MaxRequests
  /\ \/ \E page \in ServerPages(log, bl.cursor) :
          LET r == scan_page(page.list, bl.cnt, yesterday_starts(clock),
                             today_starts(clock))
          IN /\ bl' = [bl EXCEPT
                         !.reqs = @ + 1,
                         !.sent = bl.cursor,
                         !.late = @ \/ \E j \in 1..bl.served :
                                         log[j] < yesterday_starts(clock),
                         !.served = @ + Len(page.list),
                         !.got = page.cursor,
                         !.cursor = next_cursor(bl.cursor, page),
                         !.cnt = r.cnt,
                         !.exhausted = r.exhausted]
             /\ Goto(IF r.exhausted THEN "save_histories" ELSE "fetch")
     \/ /\ Raise(HistoryExc("HTTPError"))
        /\ UNCHANGED bl
  /\ UNCHANGED <<captures, uploads, login, file, wr, cache, log, runs>>
  /\ UNCHANGED imgVars

\* A merge that keeps nothing but the new entry.
merge_yesterday_only(hist, day, cnt) == [d \in {day} |-> cnt]

\* A merge that adds the new count to the entry the file already holds.
merge_yesterday_add(hist, day, cnt) ==
  [d \in (DOMAIN hist) \cup {day} |->
     IF d = day THEN (IF d \in DOMAIN hist THEN hist[d] + cnt ELSE cnt) ELSE hist[d]]

\* history[yesterday] = yesterday_count: the entry of `day` is set, the others stay.
merge_yesterday(hist, day, cnt) ==
  [d \in (DOMAIN hist) \cup {day} |-> IF d = day THEN cnt ELSE hist[d]]

\* history[yesterday] = yesterday_count; self.save_histories(history)
save_histories ==
  /\ pc = "generate"
  /\ gpc = "save_histories"
  /\ LET h == merge_yesterday(bl.hist, yesterday(clock), bl.cnt)
     IN /\ bl' = [bl EXCEPT !.hist = h]
        /\ cache' = CacheFile(TRUE, h)
        /\ runs' = Append(runs, [log |-> log, cnt |-> bl.cnt, before |-> cache,
                                 after |-> CacheFile(TRUE, h)])
  /\ Goto("svg")
  /\ UNCHANGED <<captures, uploads, login, file, wr, log>>
  /\ UNCHANGED imgVars

\* --------------------------------------------------- run(): after the loop
PostCall(name, keys) == [call |-> name, keys |-> keys]

\* if not full_data: ... return False   (main() then calls exit(1))
check_data ==
  /\ pc = "check_data"
  /\ IF DOMAIN full_data = {}
       THEN /\ pc' = "done"
            /\ exitCode' = ExitFailure
       ELSE /\ pc' = "update_readme"
            /\ UNCHANGED exitCode
  /\ UNCHANGED <<i, gpc, full_data, err, outcome, errOf, genCalls, shots,
                 captures, uploads, login, file, post>>
  /\ UNCHANGED imgVars
  /\ UNCHANGED srcVars

\* update_readme(full_data): reads the template and readme.json, formats,
\* writes; a missing file or template key raises, and nothing catches it.
update_readme ==
  /\ pc = "update_readme"
  /\ post' = Append(post, PostCall("update_readme", DOMAIN full_data))
  /\ \/ /\ pc' = "cleanup"
        /\ UNCHANGED <<i, gpc, full_data, err, exitCode, outcome, errOf, genCalls,
                       shots, captures, uploads>>
     \/ /\ pc' = "crashed"
        /\ exitCode' = ExitFailure
        /\ UNCHANGED <<i, gpc, full_data, err, outcome, errOf, genCalls, shots,
                       captures, uploads>>
  /\ UNCHANGED <<login, file>>
  /\ UNCHANGED imgVars
  /\ UNCHANGED srcVars

\* cleanup(): GET /upload_history, raise_for_status, history, now.
cleanup_list ==
  /\ pc = "cleanup"
  /\ post' = Append(post, PostCall("cleanup", {}))
  /\ \/ /\ pc' = "sweep"
        /\ sweep' = [history |-> HistoryOf(host), k |-> 1, now |-> clock,
                     calls |-> {}, failed |-> {}, order |-> <<>>, raised |-> FALSE]
        /\ UNCHANGED exitCode
     \/ /\ pc' = "crashed"
        /\ exitCode' = ExitFailure
        /\ UNCHANGED sweep
  /\ UNCHANGED <<i, gpc, full_data, err, outcome, errOf, genCalls, shots,
                 captures, uploads, login, file, clock, host, nextId,
                 given, lastUp, caller>>
  /\ UNCHANGED srcVars

\* A cleanup() whose delete call has no handler around it.
on_delete_error_unhandled(e) == "raised"

\* cleanup(): try: await self.client.get(item["delete"]) ... except
\* httpx.HTTPError as e: log(...). What becomes of an exception e of the call.
on_delete_error(e) == IF e = "HTTPError" THEN "caught" ELSE "raised"

\* The exceptions a delete request raises: httpx's request errors (connection,
\* timeout, protocol, ...), all of them subclasses of httpx.HTTPError.
DeleteErrors == {"HTTPError"}

\* cleanup(): one iteration of `for item in history`. The delete call removes
\* the artifact, or the host answers with an error status (no exception), or
\* the request raises httpx.HTTPError, which is caught and logged.
cleanup_item ==
  /\ pc = "sweep"
  /\ sweep.k <= Len(sweep.history)
  /\ LET item == sweep.history[sweep.k]
         called == [sweep EXCEPT !.calls = @ \cup {item.id},
                                 !.order = Append(@, item.id)]
     IN IF should_delete(sweep.now, item)
          THEN \/ /\ host' = {a \in host : a.id # item.id}
                  /\ sweep' = [called EXCEPT !.k = @ + 1]
                  /\ UNCHANGED <<pc, exitCode>>
               \/ /\ host' = host
                  /\ sweep' = [called EXCEPT !.k = @ + 1]
                  /\ UNCHANGED <<pc, exitCode>>
               \/ \E e \in DeleteErrors :
                    /\ host' = host
                    /\ IF on_delete_error(e) = "caught"
                         THEN /\ sweep' = [called EXCEPT !.k = @ + 1,
                                                          !.failed = @ \cup {item.id}]
                              /\ UNCHANGED <<pc, exitCode>>
                         ELSE /\ sweep' = [called EXCEPT !.failed = @ \cup {item.id},
                                                          !.raised = TRUE]
                              /\ pc' = "crashed"
                              /\ exitCode' = ExitFailure
          ELSE /\ host' = host
               /\ sweep' = [sweep EXCEPT !.k = @ + 1]
               /\ UNCHANGED <<pc, exitCode>>
  /\ UNCHANGED <<login, file, clock, nextId, given, lastUp, caller>>
  /\ UNCHANGED <<i, gpc, full_data, err, outcome, errOf, genCalls, shots,
                 captures, uploads, post>>
  /\ UNCHANGED srcVars

\* cleanup() returns: the loop over history is exhausted.
cleanup_return ==
  /\ pc = "sweep"
  /\ sweep.k > Len(sweep.history)
  /\ pc' = IF caller = "run" THEN "aclose" ELSE "image"
  /\ UNCHANGED <<i, gpc, full_data, err, exitCode, outcome, errOf, genCalls, shots,
                 captures, uploads, login, file, post>>
  /\ UNCHANGED imgVars
  /\ UNCHANGED srcVars

\* await image_service.client.aclose(); await client.aclose(); return True
aclose ==
  /\ pc = "aclose"
  /\ \/ /\ pc' = "done"
        /\ exitCode' = ExitSuccess
     \/ /\ pc' = "crashed"
        /\ exitCode' = ExitFailure
  /\ UNCHANGED <<i, gpc, full_data, err, outcome, errOf, genCalls, shots,
                 captures, uploads, login, file, post>>
  /\ UNCHANGED imgVars
  /\ UNCHANGED srcVars

\* ---------------------------------------------------------- specification
Next ==
  \/ loop_next
  \/ loop_exit
  \/ login_by_cookies
  \/ check_login_cookies
  \/ login_by_credential
  \/ check_login_credential
  \/ capture
  \/ upload
  \/ get_history
  \/ svg
  \/ load_histories
  \/ fetch_page
  \/ save_histories
  \/ except_screenshot
  \/ check_data
  \/ update_readme
  \/ cleanup_list
  \/ cleanup_item
  \/ cleanup_return
  \/ aclose

Spec == Init /\ [][Next]_vars

\* ------------------------------------ the image client, called directly
\* The files a direct caller hands to upload(): one content twice, or two.
ImgContents == {Content(LC, "same"), Content(LC, "new")}

\* The image client is built and idle; the host holds what earlier runs left.
InitImage ==
  /\ pc = "image"
  /\ i = 0
  /\ gpc = "idle"
  /\ outcome = [n \in Names |-> "pending"]
  /\ errOf = [n \in Names |-> NoErr]
  /\ genCalls = [n \in Names |-> 0]
  /\ shots = {}
  /\ captures = {}
  /\ login = NoLogin
  /\ host \in PriorHosts
  /\ caller = "direct"
  /\ cache = CacheFile(TRUE, OlderEntry)
  /\ log = <<>>
  /\ InitCommon

\* await image_service.upload(path), outside a generator.
upload_call ==
  /\ pc = "image"
  /\ lastUp.n < MaxUploads
  /\ \E c \in ImgContents :
     \E o \in HostUpload(host, c, clock, nextId) :
       DoUpload(c, o)
  /\ UNCHANGED <<login, file, clock, sweep, caller>>
  /\ UNCHANGED runVars
  /\ UNCHANGED srcVars

\* await image_service.cleanup(), outside run(): one sweep.
cleanup_call ==
  /\ pc = "image"
  /\ post = <<>>
  /\ pc' = "cleanup"
  /\ UNCHANGED <<i, gpc, full_data, err, exitCode, outcome, errOf, genCalls, shots,
                 captures, uploads, login, file, post>>
  /\ UNCHANGED imgVars
  /\ UNCHANGED srcVars

NextImage ==
  \/ upload_call
  \/ cleanup_call
  \/ cleanup_list
  \/ cleanup_item
  \/ cleanup_return

SpecImage == InitImage /\ [][NextImage]_vars

\* ------------------------------- BilibiliHistory.generate, after its login
\* The fifth iteration of the loop: the four generators before it raised and
\* had their screenshots taken, the cookie login of this one has succeeded, and
\* the remote log is any log within the bound.
InitHistory ==
  /\ pc = "generate"
  /\ i = Len(generators)
  /\ gpc = "load_histories"
  /\ outcome = [n \in Names |-> IF n = BL THEN "running" ELSE "handled"]
  /\ errOf = [n \in Names |-> IF n = BL THEN NoErr ELSE Exc("raised")]
  /\ genCalls = [n \in Names |-> 1]
  /\ shots = {DebugPath(n) : n \in Names \ {BL}}
  /\ captures = {GH}
  /\ login = [jar |-> TRUE, injected |-> 1, checks |-> <<TRUE>>, cred |-> 0]
  /\ host = {}
  /\ caller = "run"
  /\ cache \in CacheInits
  /\ log \in Logs(Now0)
  /\ InitCommon

NextHistory ==
  \/ load_histories
  \/ fetch_page
  \/ save_histories
  \/ svg

SpecHistory == InitHistory /\ [][NextHistory]_vars

\* ------------------------------- the watch-history source, run again
\* What the remote log may be when the program is run again on the same day:
\* unchanged, without one of its items (removed by the user), or with a new
\* item watched since.
RemoveAt(lg, j) == SubSeq(lg, 1, j - 1) \o SubSeq(lg, j + 1, Len(lg))
LogChanges(lg, t) ==
  {lg} \cup {RemoveAt(lg, j) : j \in 1..Len(lg)}
       \cup (IF Len(lg) < MaxLogLen THEN {<<today_starts(t) + 1>> \o lg} ELSE {})

\* main() is run again later on the same day, after the run in which the
\* watch-history source ended (returned, or raised and was handled or not), and
\* that run has come to BilibiliHistory.generate past its login: a new process,
\* with a new aggregate; the cache file is what the earlier run left.
next_run ==
  /\ pc \in {"loop", "crashed"}
  /\ i = Len(generators)
  /\ genCalls[BL] < MaxRuns
  /\ pc' = "generate"
  /\ gpc' = "load_histories"
  /\ full_data' = EmptyDict
  /\ err' = NoErr
  /\ exitCode' = None
  /\ outcome' = [outcome EXCEPT ![BL] = "running"]
  /\ errOf' = [errOf EXCEPT ![BL] = NoErr]
  /\ genCalls' = [genCalls EXCEPT ![BL] = @ + 1]
  /\ bl' = NoBl
  /\ log' \in LogChanges(log, clock)
  /\ UNCHANGED <<i, shots, captures, uploads, login, file, post, wr, cache, runs>>
  /\ UNCHANGED imgVars

NextReruns ==
  \/ load_histories
  \/ fetch_page
  \/ save_histories
  \/ svg
  \/ except_screenshot
  \/ next_run

SpecReruns == InitHistory /\ [][NextReruns]_vars

\* ------------------------------------------------------------------ claims
\* States in which the generator loop of the run has been left normally.
AfterLoop ==
  \/ pc \in {"check_data", "update_readme", "cleanup", "sweep", "aclose", "done"}
  \/ pc = "crashed" /\ Len(post) > 0

\* The run is over: run() returned, or an exception left it.
RunOver == pc \in {"done", "crashed"}

\* C1: in login(), when the check that follows the cookie attempt answers true,
\* login_by_credential is not called and check_login is called once; and
\* login_by_credential is called only after a first check that answered false.
C1_CookieLoginSkipsCredential ==
  /\ (Len(login.checks) >= 1 /\ login.checks[1]) =>
       (login.cred = 0 /\ Len(login.checks) = 1)
  /\ login.cred > 0 => (Len(login.checks) >= 1 /\ ~login.checks[1])
  /\ login.cred <= 1

\* A login that succeeded by cookies and went on to the capture.
C1_Witness ==
  /\ pc = "generate"
  /\ cur = GT
  /\ gpc = "capture"
  /\ login.checks = <<TRUE>>
  /\ login.jar

\* C2: when the check fails after the cookie attempt and again after the
\* credential attempt, generate() raises LoginFailed with the generator's name;
\* a generator that raised it started no capture and no upload, and the
\* aggregate holds none of its keys.
C2_LoginFailedRaised ==
  /\ (i >= 1 /\ Len(login.checks) = 2 /\ ~login.checks[2]) =>
       /\ errOf[cur] = LoginFailed(cur)
       /\ outcome[cur] \in {"raised", "handled"}
  /\ \A n \in Names :
       errOf[n] = LoginFailed(n) =>
         /\ n \notin captures
         /\ n \notin uploads
         /\ KeysOf(n) \cap DOMAIN full_data = {}
         /\ outcome[n] \in {"raised", "handled"}

\* The run ended with one generator's login exhausted and others in the aggregate.
C2_Witness ==
  /\ pc = "done"
  /\ errOf[GT] = LoginFailed(GT)
  /\ UrlKey(LC) \in DOMAIN full_data
  /\ UrlKey(WR) \in DOMAIN full_data

\* C3: after the generator loop the aggregate holds exactly the keys of the
\* generators whose generate() did not raise, each date entry is today's, and
\* the diagnostic screenshots are exactly those named by the generators that raised.
C3_Isolation ==
  AfterLoop =>
    /\ DOMAIN full_data = UNION {KeysOf(n) : n \in {m \in Names : outcome[m] = "returned"}}
    /\ \A n \in Names : outcome[n] \in {"returned", "handled"}
    /\ \A n \in Names : DateKey(n) \in DOMAIN full_data =>
                          full_data[DateKey(n)] = get_today(clock)
    /\ shots = {DebugPath(n) : n \in {m \in Names : outcome[m] = "handled"}}

\* Of the first three generators the second raised; the loop is over.
C3_Witness ==
  /\ pc = "check_data"
  /\ outcome[LC] = "returned"
  /\ outcome[GH] = "handled"
  /\ outcome[GT] = "returned"
  /\ shots = {DebugPath(GH)}

\* C4: whatever a generator raises, every configured generator's generate() is
\* invoked exactly once by the time the run is over.
C4_EveryGeneratorInvoked ==
  RunOver => \A n \in Names : genCalls[n] = 1

\* C5: the process exits with a non-zero status exactly when the aggregate is
\* empty after all generators were attempted.
C5_FailureIffEmpty ==
  (RunOver /\ AfterLoop) => (exitCode = ExitFailure <=> DOMAIN full_data = {})

\* The configured order of the claim.
ConfiguredOrder == <<LC, GH, GT, WR, BL>>

\* C6: the generators run one at a time in the configured order: a generator
\* has started only if every generator before it has returned, or has raised
\* and had its screenshot taken; at most one generator is between its start
\* and its end.
C6_Sequential ==
  /\ \A j \in 1..Len(ConfiguredOrder) :
       outcome[ConfiguredOrder[j]] # "pending" =>
         \A k \in 1..(j - 1) : outcome[ConfiguredOrder[k]] \in {"returned", "handled"}
  /\ Cardinality({n \in Names : outcome[n] \in {"running", "raised"}}) <= 1
  /\ \A n \in Names : genCalls[n] <= 1

\* The third generator runs after the first raised and the second returned.
C6_Witness ==
  /\ pc = "generate"
  /\ outcome[LC] = "handled"
  /\ outcome[GH] = "returned"
  /\ outcome[GT] = "running"
  /\ gpc = "upload"

\* C7: once the run is over with the loop left and a non-empty aggregate,
\* update_readme and then cleanup were each called once, update_readme with
\* the aggregate; with an empty aggregate neither was called; neither is called
\* before the loop is left.
C7_ReadmeThenCleanup ==
  /\ (RunOver /\ AfterLoop) =>
       post = IF DOMAIN full_data = {}
                THEN <<>>
                ELSE <<PostCall("update_readme", DOMAIN full_data),
                       PostCall("cleanup", {})>>
  /\ ~AfterLoop => post = <<>>


\* The items of a log that fall in [start of yesterday, start of today).
YesterdayItems(lg, t) ==
  {j \in 1..Len(lg) : yesterday_starts(t) <= lg[j] /\ lg[j] < today_starts(t)}
\* The items of a log older than the start of yesterday.
OlderItems(lg, t) == {j \in 1..Len(lg) : lg[j] < yesterday_starts(t)}

\* C8: for a log ordered from newest to oldest, however the server splits it
\* into pages, the count get_yesterday_history returns is the number of items
\* of yesterday, the loop ends on the page that holds the first older item,
\* and no page is requested once an older item has been served.
C8_CountAndMinimalRequests ==
  /\ gpc = "save_histories" =>
       /\ bl.cnt = Cardinality(YesterdayItems(log, clock))
       /\ OlderItems(log, clock) # {}
       /\ \E j \in OlderItems(log, clock) :
            /\ \A k \in OlderItems(log, clock) : j <= k
            /\ bl.cursor.max >= j
            /\ bl.sent.max < j
  /\ gpc = "fetch" => \A j \in OlderItems(log, clock) : bl.served < j
  /\ ~bl.late

\* The loop ended after two pages or more, on a log with an item of today, one
\* of yesterday, and pages left unrequested behind the first older item.
C8_Witness ==
  /\ gpc = "save_histories"
  /\ bl.reqs >= 2
  /\ bl.cnt >= 1
  /\ Len(log) > 0
  /\ log[1] >= today_starts(clock)
  /\ bl.served < Len(log)

\* C9: an upload() of a content whose earlier upload() returned a URL, answered
\* by the host with image_repeated, returns that same URL and does not raise,
\* and the host holds one artifact of that content.
C9_UploadIdempotent ==
  (lastUp.code = "image_repeated" /\ lastUp.before # NoUrl) =>
    /\ ~lastUp.raised
    /\ lastUp.value = lastUp.before
    /\ lastUp.copies = 1

\* The second of two upload() calls of one content, made on a host that did
\* not hold it before the first.
C9_Witness ==
  /\ pc = "image"
  /\ lastUp.n = 2
  /\ lastUp.code = "image_repeated"
  /\ lastUp.before = UrlOf(FirstNewId)
  /\ lastUp.value = UrlOf(FirstNewId)
  /\ lastUp.copies = 1

\* C10: cleanup() has issued a delete call for an item of the history it has
\* passed exactly when the item is seven days old or more (to the second), and
\* every younger item of the history is still on the host.
C10_DeleteIffOld ==
  /\ \A idx \in 1..Len(sweep.history) :
       idx < sweep.k =>
         (sweep.history[idx].id \in sweep.calls <=>
            sweep.now - sweep.history[idx].created_at >= RetentionDays * SecondsPerDay)
  /\ \A idx \in 1..Len(sweep.history) :
       idx >= sweep.k => sweep.history[idx].id \notin sweep.calls
  /\ \A idx \in 1..Len(sweep.history) :
       sweep.now - sweep.history[idx].created_at < RetentionDays * SecondsPerDay =>
         sweep.history[idx] \in host

\* A finished sweep that kept an artifact created exactly six days before and
\* issued the delete call for one created exactly seven days before.
C10_Witness ==
  /\ sweep.k > Len(sweep.history)
  /\ \E x \in 1..Len(sweep.history), y \in 1..Len(sweep.history) :
       /\ sweep.now - sweep.history[x].created_at = 6 * SecondsPerDay
       /\ sweep.history[x].id \notin sweep.calls
       /\ sweep.history[x] \in host
       /\ sweep.now - sweep.history[y].created_at = RetentionDays * SecondsPerDay
       /\ sweep.history[y].id \in sweep.calls

\* The ids of the items of a history that are at or beyond the retention
\* threshold (to the second), in the order of the history.
RECURSIVE DueIds(_, _)
DueIds(history, now) ==
  IF history = <<>> THEN <<>>
  ELSE (IF now - Head(history).created_at >= RetentionDays * SecondsPerDay
          THEN <<Head(history).id>> ELSE <<>>) \o DueIds(Tail(history), now)

\* C11: a delete call that fails does not abort the sweep: the delete calls
\* made so far are exactly one per item at or beyond the threshold among the
\* items passed, in the order of the listing, whichever of them failed; and
\* cleanup() does not raise because of a failed delete call.
C11_BestEffortSweep ==
  /\ sweep.k >= 1 =>
       sweep.order = DueIds(SubSeq(sweep.history, 1, sweep.k - 1), sweep.now)
  /\ sweep.failed \subseteq sweep.calls
  /\ ~sweep.raised

\* cleanup() has returned from a sweep of two items at or beyond the threshold:
\* the delete call of the first failed, the second was still attempted.
C11_Witness ==
  /\ pc = "image"
  /\ Len(sweep.history) = 2
  /\ sweep.k = 3
  /\ sweep.failed = {sweep.history[1].id}
  /\ sweep.order = <<sweep.history[1].id, sweep.history[2].id>>
  /\ sweep.history[1] \in host
  /\ sweep.history[2] \notin host

\* The steps of generate() that follow login(): capture, upload, API reads, drawing.
BodySteps ==
  {"capture", "upload", "get_history", "svg", "load_histories", "fetch", "save_histories"}

\* login() has returned in the current generate() call: its last check answered true.
LoginCompleted ==
  /\ Len(login.checks) >= 1
  /\ login.checks[Len(login.checks)]

\* The generator of the current iteration is n and, in this generate() call, it
\* is at a step after login() or has started a capture, an upload or an API read.
InBody(n) ==
  /\ i >= 1
  /\ cur = n
  /\ pc \in {"generate", "except", "loop"}
  /\ \/ pc = "generate" /\ gpc \in BodySteps
     \/ n \in captures \cup uploads
     \/ n = WR /\ wr.details > 0
     \/ n = BL /\ bl.reqs > 0

\* C12 (as claimed): no generator, github_calendar included, captures, uploads
\* or reads its API without a completed login() earlier in the same generate() call.
C12_EverySourceLogsInFirst ==
  \A n \in Names : InBody(n) => LoginCompleted

\* C12 (amended): every generator with a login (leetcode_summary,
\* geek_time_calendar, weread_history, bilibili_history) captures, uploads or
\* reads its API only after a completed login() in the same generate() call;
\* github_calendar has no login: it makes no login step at all.
C12_LoginSourcesLogInFirst ==
  /\ \A n \in {LC, GT, WR, BL} : InBody(n) => LoginCompleted
  /\ (i >= 1 /\ cur = GH /\ pc \in {"generate", "except", "loop"}) => login = NoLogin

\* leetcode_summary is about to upload after a login that needed the credential attempt.
C12_Witness ==
  /\ pc = "generate"
  /\ cur = LC
  /\ gpc = "upload"
  /\ LC \in captures
  /\ login.checks = <<FALSE, TRUE>>
  /\ login.cred = 1

\* C13: cookies are put into the session only from a non-empty jar, and a
\* generator whose jar is empty does not come out of login() authenticated
\* unless its login_by_credential was invoked.
C13_EmptyJarNeedsCredential ==
  /\ login.injected > 0 => login.jar
  /\ (i >= 1 /\ cur \in LoginGenerators /\ pc \in {"generate", "except", "loop"}
        /\ ~login.jar /\ LoginCompleted) => login.cred >= 1

\* C14: the configured names are pairwise distinct and so are the keys of two
\* generators; at every point of the run the keys of the aggregate are exactly
\* the two keys of each generator that has returned so far; and an entry, once
\* in the aggregate, is never overwritten or removed by a later generator.
C14_NoKeyCollision ==
  /\ [](/\ Cardinality(Names) = Len(generators)
        /\ \A n, m \in Names : n # m => KeysOf(n) \cap KeysOf(m) = {}
        /\ DOMAIN full_data =
             UNION {KeysOf(n) : n \in {m \in Names : outcome[m] = "returned"}})
  /\ [][\A k \in DOMAIN full_data :
           k \in DOMAIN full_data' /\ full_data'[k] = full_data[k]]_vars

\* The third generator is running after the first two returned: the aggregate
\* holds the four keys of the two, with the URL each of them was given.
C14_Witness ==
  /\ pc = "generate"
  /\ cur = GT
  /\ outcome[LC] = "returned"
  /\ outcome[GH] = "returned"
  /\ DOMAIN full_data = KeysOf(LC) \cup KeysOf(GH)
  /\ full_data[UrlKey(LC)] = UrlOf(1)
  /\ full_data[UrlKey(GH)] = UrlOf(FirstNewId)

\* C15: a step changes the cache file only in save_histories, and then only
\* by setting the entry of yesterday's date: every other date of the file is
\* still there with its count, and no other date is added; so after any
\* number of runs every date the file held is still in it.
C15_CacheFrame ==
  /\ [][cache' # cache =>
          /\ gpc = "save_histories"
          /\ cache.ok /\ cache'.ok
          /\ DOMAIN cache'.data = DOMAIN cache.data \cup {yesterday(clock)}
          /\ \A d \in DOMAIN cache.data :
               d # yesterday(clock) => cache'.data[d] = cache.data[d]]_vars
  /\ [](\A r \in 1..Len(runs) :
          \A d \in DOMAIN runs[r].before.data : d \in DOMAIN cache.data)

\* The second run of the day has saved: the older date written before the
\* first run is in the file with its count, next to yesterday's entry.
C15_Witness ==
  /\ Len(runs) = 2
  /\ gpc = "svg"
  /\ runs[1].before = CacheFile(TRUE, OlderEntry)
  /\ DOMAIN cache.data = {yesterday(clock) - 1, yesterday(clock)}
  /\ cache.data[yesterday(clock) - 1] = OlderEntry[yesterday(clock) - 1]
  /\ cache.data[yesterday(clock)] = 1

\* C16: get_yesterday_history leaves its loop and returns exactly when a page
\* it fetched held an item older than the start of yesterday: the flag is set
\* if and only if such an item has been served, the steps after the loop are
\* reached only with the flag set, and on a log without such an item the
\* flag is never set, the function never returns and nothing is saved: the
\* call is in the loop, about to request again, unless a request raised.
C16_ReturnsIffOlderItemFetched ==
  /\ bl.exhausted <=> \E j \in 1..bl.served : log[j] < yesterday_starts(clock)
  /\ (pc = "generate" /\ gpc \in {"save_histories", "svg"}) => bl.exhausted
  /\ (pc = "generate" /\ gpc = "fetch") => ~bl.exhausted
  /\ OlderItems(log, clock) = {} =>
       /\ ~bl.exhausted
       /\ runs = <<>>
       /\ \/ pc = "generate" /\ gpc \in {"load_histories", "fetch"}
          \/ pc = "except" /\ errOf[BL].type = "Exception"

\* On a log of one item of yesterday and nothing older, the whole log has been
\* served, and the loop has gone on requesting, page after empty page.
C16_Witness ==
  /\ pc = "generate"
  /\ gpc = "fetch"
  /\ log = <<yesterday_starts(clock)>>
  /\ bl.served = Len(log)
  /\ bl.cnt = 1
  /\ bl.reqs = MaxRequests
  /\ ~bl.exhausted

\* C17: the first request of get_yesterday_history carries the cursor
\* (max = 0, view_at = start of today); every later request carries the cursor
\* of the response before it, as the server gave it; and while the log has
\* items left each request starts at the first item not yet served, so that
\* no page is requested twice and none is skipped.
C17_CursorFromServer ==
  [][(bl'.reqs = bl.reqs + 1) =>
       /\ bl'.sent = IF bl.reqs = 0
                       THEN [max |-> 0, view_at |-> today_starts(clock)]
                       ELSE bl.got
       /\ bl'.sent.max = bl.served
       /\ (bl.reqs > 0 /\ bl.sent.max < Len(log)) => bl'.sent.max > bl.sent.max]_vars

\* The third request of a call has been answered: it carried the cursor of
\* the second response, whose time bound is not the one the call began with.
C17_Witness ==
  /\ pc = "generate"
  /\ bl.reqs = 3
  /\ bl.sent.max = 2
  /\ bl.sent.view_at = log[2]
  /\ log[2] < today_starts(clock)
  /\ bl.got.max = 3

\* C18: after every run that saved, the file's entry for yesterday is the
\* count of that run (the number of yesterday's items of the log it read),
\* whatever the entry was before, and the file is what that run wrote; and of
\* two runs of one day that read the same log the later leaves the file
\* exactly as the earlier left it.
C18_RerunIdempotent ==
  /\ \A r \in 1..Len(runs) :
       /\ runs[r].after.ok
       /\ yesterday(clock) \in DOMAIN runs[r].after.data
       /\ runs[r].after.data[yesterday(clock)] = runs[r].cnt
       /\ runs[r].cnt = Cardinality(YesterdayItems(runs[r].log, clock))
  /\ Len(runs) > 0 => cache = runs[Len(runs)].after
  /\ \A r, q \in 1..Len(runs) :
       (r < q /\ runs[r].log = runs[q].log) => runs[q].after = runs[r].after

\* Two runs read the same log with one item of yesterday: the first replaced
\* a provisional entry of another value, the second wrote the same file again.
C18_Witness ==
  /\ Len(runs) = 2
  /\ runs[1].log = runs[2].log
  /\ runs[1].before = CacheFile(TRUE, ProvisionalEntry)
  /\ runs[1].cnt = 1
  /\ runs[1].before.data[yesterday(clock)] # runs[1].cnt
  /\ runs[2].before = runs[1].after
  /\ runs[2].after = runs[1].after
  /\ cache.data[yesterday(clock)] = 1

\* The watch-history source raised on an unreadable cache file or in a history request.
HistoryFailed ==
  errOf[BL] \in {HistoryExc("CacheCorrupt"), HistoryExc("HTTPError")}

\* The parts of C19 about the source itself: generate() raised, the cache file
\* was not written, the aggregate has no entry of the source and holds the
\* entries of the generators that returned, and an unreadable cache stops the
\* source before any history request.
C19_SourceOnly ==
  HistoryFailed =>
    /\ outcome[BL] \in {"raised", "handled"}
    /\ runs = <<>>
    /\ KeysOf(BL) \cap DOMAIN full_data = {}
    /\ DOMAIN full_data = UNION {KeysOf(n) : n \in {m \in Names : outcome[m] = "returned"}}
    /\ errOf[BL] = HistoryExc("CacheCorrupt") => (~cache.ok /\ bl.reqs = 0)

\* C19: when the cache file is unreadable or a history request raises, only
\* the watch-history source fails: generate() raises, the file is not
\* rewritten, the source adds no entry, the other generators' entries stay,
\* no request is made on an unreadable cache, and the run goes on to its end
\* as it would have: it is not ended inside the handling of this failure.
C19_HistoryFailureIsolated ==
  /\ C19_SourceOnly
  /\ (HistoryFailed /\ RunOver) => AfterLoop

\* The run was ended by an exception raised inside the except clause of the loop.
EndedInHandler == pc = "crashed" /\ post = <<>>

\* C20: the except clause of the loop has no handler of its own. The loop goes
\* on past a generator that raised only when its screenshot was written; when
\* the screenshot raises, run() is left at once: the generators after the
\* failed one are never invoked, update_readme and cleanup() are not called,
\* and the process exits with a failure, whatever the aggregate holds.
C20_HandlerUnprotected ==
  /\ \A n \in Names : outcome[n] = "handled" => DebugPath(n) \in shots
  /\ \A n \in Names : outcome[n] = "raised" => (pc \in {"except", "crashed"} /\ cur = n)
  /\ EndedInHandler =>
       /\ outcome[cur] = "raised"
       /\ DebugPath(cur) \notin shots
       /\ \A j \in (i + 1)..Len(generators) :
            genCalls[generators[j]] = 0 /\ outcome[generators[j]] = "pending"
       /\ sweep = NoSweep
       /\ exitCode = ExitFailure

\* The first generator returned its entries, the second raised and so did the
\* screenshot of its handling: the run is over with three generators never invoked.
C20_Witness ==
  /\ EndedInHandler
  /\ outcome[LC] = "returned"
  /\ DOMAIN full_data = KeysOf(LC)
  /\ outcome[GH] = "raised"
  /\ genCalls[GT] = 0
  /\ genCalls[WR] = 0
  /\ genCalls[BL] = 0

\* The answers -2012 of a sequence of errcodes.
Refused(codes) == {j \in 1..Len(codes) : codes[j] = -2012}

\* C21: get_history makes at most three read-detail requests and at most two
\* base-URL requests; every answer but the last was -2012, and each -2012 among
\* the first two is followed by one base-URL request and a retry; the call
\* returns on the first answer without -2012, with no request after it; and it
\* raises LoginFailed exactly on the third -2012 in a row, with no request after it.
C21_BoundedRetry ==
  /\ wr.details <= 3
  /\ wr.refreshes <= 2
  /\ wr.retries <= 2
  /\ Len(wr.codes) <= wr.details
  /\ wr.details <= Len(wr.codes) + 1
  /\ \A j \in 1..(Len(wr.codes) - 1) : wr.codes[j] = -2012
  /\ wr.refreshes = Cardinality({j \in Refused(wr.codes) : j <= 2})
  /\ (pc = "generate" /\ cur = WR /\ gpc = "svg") =>
       /\ Len(wr.codes) >= 1
       /\ wr.codes[Len(wr.codes)] # -2012
       /\ wr.details = Len(wr.codes)
       /\ wr.refreshes = Len(wr.codes) - 1
  /\ (pc = "generate" /\ cur = WR /\ gpc = "get_history") =>
       /\ Refused(wr.codes) = 1..Len(wr.codes)
       /\ wr.details = Len(wr.codes)
       /\ wr.retries = Len(wr.codes)
  /\ (pc \in {"except", "crashed"} /\ post = <<>> /\ cur = WR) =>
       (errOf[WR].type = "LoginFailed" <=>
          /\ wr.codes = <<-2012, -2012, -2012>>
          /\ wr.details = 3
          /\ wr.refreshes = 2)

\* The third answer was -2012 as were the two before it: LoginFailed is being
\* handled after three read-detail requests and two base-URL requests.
C21_Witness ==
  /\ pc = "except"
  /\ cur = WR
  /\ errOf[WR].type = "LoginFailed"
  /\ wr.codes = <<-2012, -2012, -2012>>
  /\ wr.details = 3
  /\ wr.refreshes = 2

====
